---------------------------- MODULE Spec2Model ----------------------------
(***************************************************************************)
(* Attribute data operations of chapter 02 (02-attribute-operations.py).    *)
(*                                                                         *)
(* The chapter is a notebook: each cell applies one pandas / geopandas     *)
(* operation to the frames `world` and `coffee_data` and shows the result. *)
(* A state holds the two input frames, the name of the last cell that was  *)
(* run, the arguments it was run with, and the frame (or the error) it     *)
(* produced.  A frame is a sequence of rows; a row is a record of its      *)
(* column values plus `label`, its entry in the frame's index.             *)
(*                                                                         *)
(* The cells of the later sections assign to columns and to array          *)
(* elements.  There the objects live in `heap`, `env` binds the notebook's *)
(* names (world, world2, elev, elev1, grain) to them, `args` holds the     *)
(* arguments of the last cell and `steps` counts the cells that were run.  *)
(***************************************************************************)
EXTENDS Integers, Sequences, FiniteSets

VARIABLES world, coffee_data, cell, sel, labels, values, result, error,
          env, heap, args, steps

vars == <<world, coffee_data, cell, sel, labels, values, result, error,
          env, heap, args, steps>>

(***************************************************************************)
(* Bounds of the model.                                                    *)
(***************************************************************************)
\* rows of `world` in the subsetting cells
MaxSubsetRows == 4

\* rows of `world` in the joining and aggregating cells
MaxRows == 3

\* rows of `coffee_data`
MaxCoffeeRows == 3

\* the largest population of a row
MaxPop == 2

(***************************************************************************)
(* Values.                                                                 *)
(***************************************************************************)
\* np.nan in a numeric (float64) column; the numbers of the frames are
\* positive, so that -1 is none of them
NaN == -1

\* the text values of `continent`, in Python's string order
ContinentSorted == <<"Africa", "Asia", "Europe">>

Continents == {ContinentSorted[i] : i \in 1..Len(ContinentSorted)}

\* the text values of the join key `name_long`
Names == {"Brazil", "Peru"}

\* the missing value of a text (object) column
NA == "<NA>"

Pops == 1..MaxPop

Positions == 0..(MaxSubsetRows + 1)

Labels == 0..MaxSubsetRows

\* Python's  a < b  on the strings of ContinentSorted
StrLess(a, b) ==
    \E i, j \in 1..Len(ContinentSorted) :
        /\ ContinentSorted[i] = a
        /\ ContinentSorted[j] = b
        /\ i < j

Min(a, b) == IF a <= b THEN a ELSE b

Max(a, b) == IF a >= b THEN a ELSE b

(***************************************************************************)
(* Frames.                                                                 *)
(***************************************************************************)
\* a row of `world`; geometry is an opaque set of polygon ids
WorldRow(l, n, c, p, g) ==
    [label |-> l, name_long |-> n, continent |-> c, pop |-> p, geometry |-> g]

\* df.index
Index(df) == {df[i].label : i \in 1..Len(df)}

\* the index a new frame gets: RangeIndex(0, len)
RangeIndex(df) == [i \in 1..Len(df) |-> [df[i] EXCEPT !.label = i - 1]]

NoFrame == <<>>

Ok(df) == [error |-> "", frame |-> df]

Raise(kind) == [error |-> kind, frame |-> NoFrame]

(***************************************************************************)
(* Subsetting rows by position: world.iloc[a:b, :], world.iloc[:b],        *)
(* world.head(n).                                                          *)
(***************************************************************************)
\* s[a:b] with the stop taken as inclusive
SliceInclusive(df, a, b) ==
    SubSeq(df, a + 1, Min(b + 1, Len(df)))

\* Python's s[a:b] for 0 <= a, 0 <= b: both ends are clipped to len(s)
Slice(df, a, b) ==
    SubSeq(df, a + 1, Min(b, Len(df)))

\* df.iloc[a:b, :]
iloc(df, a, b) == Slice(df, a, b)

\* df.iloc[:b]: the omitted start is 0
ilocStop(df, b) == Slice(df, 0, b)

\* df.head(n) is df.iloc[:n]
head(df, n) == ilocStop(df, n)

(***************************************************************************)
(* Removing rows by label: world.drop([2, 3, 5]).                          *)
(***************************************************************************)
\* df.drop(L, errors='ignore'): labels that are not in the index are skipped
dropIgnore(df, L) ==
    Ok(SelectSeq(df, LAMBDA r : r.label \notin L))

\* the ids of L taken as positions instead of index labels
dropByPosition(df, L) ==
    IF \E l \in L : l \notin Index(df)
    THEN Raise("KeyError")
    ELSE LET keep == {i \in 1..Len(df) : (i - 1) \notin L}
             pos[k \in 0..Len(df)] ==
                 IF k = 0 THEN <<>>
                 ELSE IF k \in keep THEN Append(pos[k - 1], df[k])
                                    ELSE pos[k - 1]
         IN  Ok(pos[Len(df)])

\* df.drop(L): axis=0, errors='raise' (the defaults): a label that is not in
\* the index raises KeyError; otherwise the rows with a label in L go and
\* the others stay in place
drop(df, L) ==
    IF \E l \in L : l \notin Index(df)
    THEN Raise("KeyError")
    ELSE Ok(SelectSeq(df, LAMBDA r : r.label \notin L))

(***************************************************************************)
(* Boolean subsetting: world[mask].                                        *)
(***************************************************************************)
\* the comparison x == v of one element: a missing value equals nothing,
\* not even a missing value
Eq(x, v) == x # NA /\ v # NA /\ x = v

\* df[col] == v, a boolean Series
EqMask(df, v) == [i \in 1..Len(df) |-> Eq(df[i].continent, v)]

\* m1 | m2
OrMask(m1, m2) == [i \in DOMAIN m1 |-> m1[i] \/ m2[i]]

\* (df[col] == v1) | (df[col] == v2) | ... over the values of vs
RECURSIVE AnyEqMask(_, _)
AnyEqMask(df, vs) ==
    IF vs = {} THEN [i \in 1..Len(df) |-> FALSE]
    ELSE LET v == CHOOSE x \in vs : TRUE
         IN  OrMask(EqMask(df, v), AnyEqMask(df, vs \ {v}))

\* only one of the values of vs is compared with
isinMaskOne(df, vs) ==
    [i \in 1..Len(df) |->
        vs # {} /\ df[i].continent = (CHOOSE x \in vs : TRUE)]

\* df[col].isin(vs): membership in the set of values; a missing value is a
\* member when vs holds a missing value
isinMask(df, vs) ==
    [i \in 1..Len(df) |-> df[i].continent \in vs]

\* df[mask]: the rows where mask is True, in place, labels kept
BoolIndex(df, mask) ==
    LET take[k \in 0..Len(df)] ==
            IF k = 0 THEN <<>>
            ELSE IF mask[k] THEN Append(take[k - 1], df[k])
                            ELSE take[k - 1]
    IN  take[Len(df)]


(***************************************************************************)
(* Joining: pd.merge(world, coffee_data, on='name_long', how=...).         *)
(***************************************************************************)
\* a row of `coffee_data`
CoffeeRow(n, p) == [name_long |-> n, coffee_production_2017 |-> p]

\* only the first row of right with the key of l
MatchesFirst(l, right) ==
    LET m == SelectSeq(right, LAMBDA r : r.name_long = l.name_long)
    IN  IF m = <<>> THEN <<>> ELSE <<m[1]>>

\* the rows of right with the key of l, in right's order; merge matches a
\* missing key with a missing key
Matches(l, right) ==
    SelectSeq(right, LAMBDA r : r.name_long = l.name_long)

\* the row of the result for left row l and its match r
Joined(l, r) ==
    [label |-> l.label, name_long |-> l.name_long, continent |-> l.continent,
     pop |-> l.pop, geometry |-> l.geometry,
     coffee_production_2017 |-> r.coffee_production_2017]

\* a left row without a match, filled with 0
UnmatchedZero(l) ==
    Joined(l, CoffeeRow(l.name_long, 0))

\* the row of a left join for a left row without a match: the columns of
\* right are np.nan
Unmatched(l) ==
    Joined(l, CoffeeRow(l.name_long, NaN))

\* the rows of the result for left row l
JoinedRows(l, right, how) ==
    LET m == Matches(l, right)
    IN  IF m = <<>>
        THEN IF how = "left" THEN <<Unmatched(l)>> ELSE <<>>
        ELSE [j \in 1..Len(m) |-> Joined(l, m[j])]

\* the rows of the result grouped by key, the keys in the order of their
\* first row in left
mergeKeyOrder(left, right, how) ==
    LET first(i) == \A k \in 1..(i - 1) : left[k].name_long # left[i].name_long
        same(i) == SelectSeq(left, LAMBDA r : r.name_long = left[i].name_long)
        group(i) ==
            LET g == same(i)
                acc[k \in 0..Len(g)] ==
                    IF k = 0 THEN <<>>
                    ELSE acc[k - 1] \o JoinedRows(g[k], right, how)
            IN  acc[Len(g)]
        all[i \in 0..Len(left)] ==
            IF i = 0 THEN <<>>
            ELSE IF first(i) THEN all[i - 1] \o group(i) ELSE all[i - 1]
    IN  RangeIndex(all[Len(left)])

\* an inner join whatever `how` says
mergeInner(left, right, how) ==
    LET acc[k \in 0..Len(left)] ==
            IF k = 0 THEN <<>>
            ELSE acc[k - 1] \o JoinedRows(left[k], right, "inner")
    IN  RangeIndex(acc[Len(left)])

\* pd.merge(left, right, on='name_long', how=how), how in {left, inner},
\* sort=False: the rows of left in left's order, each once per match in
\* right's order; the result has a new RangeIndex
merge(left, right, how) ==
    LET acc[k \in 0..Len(left)] ==
            IF k = 0 THEN <<>>
            ELSE acc[k - 1] \o JoinedRows(left[k], right, how)
    IN  RangeIndex(acc[Len(left)])

(***************************************************************************)
(* Aggregating: world[['continent', 'pop']].groupby('continent').sum() and *)
(* world[['continent', 'pop', 'geometry']].dissolve(by='continent',        *)
(* aggfunc='sum').reset_index().                                           *)
(***************************************************************************)
\* the texts of S in ascending order
RECURSIVE SortKeys(_)
SortKeys(S) ==
    IF S = {} THEN <<>>
    ELSE LET least == CHOOSE x \in S : \A y \in S \ {x} : StrLess(x, y)
         IN  <<least>> \o SortKeys(S \ {least})

\* the group keys in the order of their first row (sort=False)
GroupKeysUnsorted(df) ==
    LET acc[k \in 0..Len(df)] ==
            IF k = 0 THEN <<>>
            ELSE IF \/ df[k].continent = NA
                    \/ \E i \in 1..(k - 1) : df[i].continent = df[k].continent
                 THEN acc[k - 1]
                 ELSE Append(acc[k - 1], df[k].continent)
    IN  acc[Len(df)]

\* the group keys of groupby('continent') and of dissolve(by='continent'):
\* dropna=True leaves out the rows whose key is missing, sort=True puts the
\* keys in ascending order (the defaults of both)
GroupKeys(df) ==
    SortKeys({df[i].continent : i \in 1..Len(df)} \ {NA})

\* the rows of the group of key k, in the frame's order
GroupRows(df, k) == SelectSeq(df, LAMBDA r : r.continent = k)

\* aggfunc 'first': the first pop of the rows that is not missing
PopFirst(rows) ==
    LET present == SelectSeq(rows, LAMBDA r : r.pop # NaN)
    IN  IF present = <<>> THEN NaN ELSE present[1].pop

\* .sum() of the pop of rows: np.nan is skipped (skipna), and the sum of
\* nothing is 0
PopSum(rows) ==
    LET acc[k \in 0..Len(rows)] ==
            IF k = 0 THEN 0
            ELSE IF rows[k].pop = NaN THEN acc[k - 1]
                                      ELSE acc[k - 1] + rows[k].pop
    IN  acc[Len(rows)]

\* the union of the geometries of rows
UnionAll(rows) == UNION {rows[i].geometry : i \in 1..Len(rows)}

\* world[['continent', 'pop']].groupby('continent').sum(): one row per
\* group key, the key being the row's index entry
groupby_sum(df) ==
    LET keys == GroupKeys(df)
    IN  [i \in 1..Len(keys) |->
            [continent |-> keys[i], pop |-> PopSum(GroupRows(df, keys[i]))]]

\* world[['continent', 'pop', 'geometry']].dissolve(by='continent',
\* aggfunc='sum').reset_index(): one row per group key with the union of
\* the group's geometries; reset_index makes the key a column again
dissolve(df) ==
    LET keys == GroupKeys(df)
    IN  RangeIndex([i \in 1..Len(keys) |->
            [label |-> keys[i], continent |-> keys[i],
             geometry |-> UnionAll(GroupRows(df, keys[i])),
             pop |-> PopSum(GroupRows(df, keys[i]))]])

(***************************************************************************)
(* The notebook: the frames that are read, and the cells.                  *)
(***************************************************************************)
\* A cell of these sections assigns to neither `world` nor `coffee_data`,
\* so what it shows does not depend on the cells run before it: a behaviour
\* is the run of one cell on the frames that were read.  The cell leaves its
\* name, its arguments and its output.
Ran(name, s, L, vs, out) ==
    /\ cell = "read_file"
    /\ cell' = name
    /\ sel' = s
    /\ labels' = L
    /\ values' = vs
    /\ result' = out.frame
    /\ error' = out.error
    /\ UNCHANGED <<world, coffee_data, env, heap, args, steps>>

\* the state after the files are read and before any cell is run
Read(w, cd) ==
    /\ world = w
    /\ coffee_data = cd
    /\ cell = "read_file"
    /\ sel = <<>>
    /\ labels = {}
    /\ values = {}
    /\ result = NoFrame
    /\ error = ""
    /\ env = <<>>
    /\ heap = <<>>
    /\ args = <<>>
    /\ steps = 0

\* frames of n rows as gpd.read_file gives them: the index is
\* RangeIndex(0, n); the texts of `continent` come from cs
RangeFrames(n, cs) ==
    { [i \in 1..n |-> WorldRow(i - 1, "Brazil", c[i], 1, {i - 1})] :
      c \in [1..n -> cs] }

\* frames of n rows whose index is any arrangement of n distinct labels
\* (what filtering and sorting leave of a RangeIndex)
LabelledFrames(n) ==
    { [i \in 1..n |-> WorldRow(l[i], "Brazil", "Asia", 1, {i - 1})] :
      l \in {g \in [1..n -> Labels] : \A i, j \in 1..n : i # j => g[i] # g[j]} }

InitSubset ==
    \E n \in 0..MaxSubsetRows :
        \E w \in RangeFrames(n, Continents \cup {NA}) \cup LabelledFrames(n) :
            Read(w, <<>>)

\* world.iloc[a:b, :]
IlocSlice ==
    \E a, b \in Positions : Ran("iloc", <<a, b>>, {}, {}, Ok(iloc(world, a, b)))

\* world.iloc[:b]
IlocStop ==
    \E b \in Positions : Ran("iloc_stop", <<b>>, {}, {}, Ok(ilocStop(world, b)))

\* world.head(n)
HeadRows ==
    \E n \in Positions : Ran("head", <<n>>, {}, {}, Ok(head(world, n)))

\* world.drop(L)
Drop ==
    \E L \in SUBSET Labels : Ran("drop", <<>>, L, {}, drop(world, L))

\* world[(world['continent'] == v1) | (world['continent'] == v2)]
FilterOr ==
    \E vs \in SUBSET (Continents \cup {NA}) :
        Ran("filter_or", <<>>, {}, vs,
            Ok(BoolIndex(world, AnyEqMask(world, vs))))

\* world[world['continent'].isin(vs)]
FilterIsin ==
    \E vs \in SUBSET (Continents \cup {NA}) :
        Ran("filter_isin", <<>>, {}, vs,
            Ok(BoolIndex(world, isinMask(world, vs))))

NextSubset ==
    \/ IlocSlice
    \/ IlocStop
    \/ HeadRows
    \/ Drop
    \/ FilterOr
    \/ FilterIsin

SpecSubset == InitSubset /\ [][NextSubset]_vars

\* frames of n rows with a RangeIndex whose keys come from Names or are
\* missing; every row has its own geometry
KeyFrames(n) ==
    { [i \in 1..n |-> WorldRow(i - 1, k[i], "Asia", 1, {i - 1})] :
      k \in [1..n -> Names \cup {NA}] }

\* the frames pd.read_csv gives: row j holds production figure j
CoffeeFrames(n) ==
    { [j \in 1..n |-> CoffeeRow(k[j], j)] : k \in [1..n -> Names \cup {NA}] }

InitJoin ==
    \E n \in 0..MaxRows, m \in 0..MaxCoffeeRows :
        \E w \in KeyFrames(n), cd \in CoffeeFrames(m) : Read(w, cd)

\* world_coffee = pd.merge(world, coffee_data, on='name_long', how='left')
MergeLeft ==
    Ran("merge_left", <<>>, {}, {}, Ok(merge(world, coffee_data, "left")))

\* pd.merge(world, coffee_data, on='name_long', how='inner')
MergeInner ==
    Ran("merge_inner", <<>>, {}, {}, Ok(merge(world, coffee_data, "inner")))

NextJoin ==
    \/ MergeLeft
    \/ MergeInner

SpecJoin == InitJoin /\ [][NextJoin]_vars

\* frames of n rows with a RangeIndex; continent and pop may be missing;
\* every row has its own geometry
PopFrames(n) ==
    { [i \in 1..n |-> WorldRow(i - 1, "Brazil", f[i].c, f[i].p, {i - 1})] :
      f \in [1..n -> [c : Continents \cup {NA}, p : Pops \cup {NaN}]] }

InitAgg ==
    \E n \in 0..MaxRows : \E w \in PopFrames(n) : Read(w, <<>>)

\* world_agg1 = world[['continent', 'pop']].groupby('continent').sum()
GroupbySum ==
    Ran("groupby", <<>>, {}, {}, Ok(groupby_sum(world)))

\* world_agg2 = world[['continent', 'pop', 'geometry']]
\*     .dissolve(by='continent', aggfunc='sum').reset_index()
Dissolve ==
    Ran("dissolve", <<>>, {}, {}, Ok(dissolve(world)))

NextAgg ==
    \/ GroupbySum
    \/ Dissolve

SpecAgg == InitAgg /\ [][NextAgg]_vars

(***************************************************************************)
(* The three sections together.                                            *)
(***************************************************************************)
Init == InitSubset \/ InitJoin \/ InitAgg

Next == NextSubset \/ NextJoin \/ NextAgg

Spec == Init /\ [][Next]_vars

(***************************************************************************)
(* Properties of the subsetting cells.                                     *)
(***************************************************************************)
Rows(df) == {df[k] : k \in 1..Len(df)}

\* out is exactly the rows of df at positions a, a+1, ..., b-1, in order,
\* and the row at position b, when there is one, is not among them
IsRange(out, df, a, b) ==
    /\ Len(out) = b - a
    /\ \A k \in 1..(b - a) : out[k] = df[a + k]
    /\ b < Len(df) => df[b + 1] \notin Rows(out)

\* out keeps the rows of df in their relative order (rows are told apart by
\* their labels)
KeepsOrder(out, df) ==
    \A j, k \in 1..Len(out) :
        j < k => \E i, m \in 1..Len(df) :
                     i < m /\ df[i] = out[j] /\ df[m] = out[k]

\* C1: on a frame of at least b rows, with 0 <= a <= b, world.iloc[a:b, :]
\* is exactly the rows at positions a, ..., b-1 in that order and never the
\* row at position b; world.iloc[:b] and world.head(b) start at 0 and are
\* exactly the rows at positions 0, ..., b-1.
C1_HalfOpenRange ==
    /\ (cell = "iloc" /\ sel[1] <= sel[2] /\ sel[2] <= Len(world))
           => IsRange(result, world, sel[1], sel[2])
    /\ (cell \in {"iloc_stop", "head"} /\ sel[1] <= Len(world))
           => IsRange(result, world, 0, sel[1])

\* a frame of four rows of which [0:3] took three and left the row at
\* position 3
C1_Witness ==
    /\ cell = "iloc"
    /\ sel = <<0, 3>>
    /\ Len(world) = 4
    /\ Len(result) = 3

\* C8: a drop that returns a frame returns one with no row whose label is in
\* L and with every row whose label is not in L, the rows kept in their
\* original relative order.
C8_DropRows ==
    (cell = "drop" /\ error = "") =>
        /\ \A k \in 1..Len(result) : result[k].label \notin labels
        /\ \A i \in 1..Len(world) :
               world[i].label \notin labels => world[i] \in Rows(result)
        /\ Rows(result) \subseteq Rows(world)
        /\ KeepsOrder(result, world)

\* rows were dropped from between rows that stayed, in a frame whose labels
\* are not its positions
C8_Witness ==
    /\ cell = "drop"
    /\ error = ""
    /\ Len(world) = 4
    /\ Len(result) = 2
    /\ result[1] = world[1]
    /\ result[2] = world[4]
    /\ world[2].label # 1

\* C9 as claimed: a drop never fails, and with a label that is not in the
\* index it returns what the drop of the existing labels of L returns.
C9_AsClaimed ==
    cell = "drop" =>
        /\ error = ""
        /\ result = SelectSeq(world, LAMBDA r : r.label \notin labels)

\* C9, amended: a drop with a label that is not in the index fails with
\* KeyError and returns no frame, also when other labels of L are in the
\* index; a drop whose labels are all in the index does not fail.
C9_UnknownLabelRaises ==
    cell = "drop" =>
        IF labels \subseteq Index(world)
        THEN error = ""
        ELSE error = "KeyError" /\ result = NoFrame

\* a drop of one label that exists and one that does not
C9_Witness ==
    /\ cell = "drop"
    /\ error = "KeyError"
    /\ labels \cap Index(world) # {}
    /\ Len(world) >= 2

\* C10 as claimed: for every candidate set, isin selects the rows that the
\* OR of the equality tests selects.
C10_AsClaimed ==
    cell = "filter_isin" =>
        result = BoolIndex(world, AnyEqMask(world, values))

\* C10, amended: isin selects the same rows, in the same order, as the OR of
\* the equality tests whenever the candidate set holds no missing value;
\* with a missing value among the candidates isin also selects the rows
\* whose value is missing, which no equality test selects.
C10_IsinIsOrOfEq ==
    cell = "filter_isin" =>
        LET byEq == BoolIndex(world, AnyEqMask(world, values))
        IN  /\ NA \notin values => result = byEq
            /\ NA \in values =>
                   \A i \in 1..Len(world) :
                       world[i].continent = NA =>
                           world[i] \in Rows(result) /\ world[i] \notin Rows(byEq)

\* isin with two candidates selected some rows and left some out
C10_Witness ==
    /\ cell = "filter_isin"
    /\ NA \notin values
    /\ Cardinality(values) = 2
    /\ Len(result) >= 2
    /\ Len(result) < Len(world)
    /\ \E j, k \in 1..Len(result) : result[j].continent # result[k].continent

(***************************************************************************)
(* Properties of the joining cells.  A row of the result is traced to its  *)
(* left row by its geometry and to its right row by its production figure; *)
(* both are distinct from row to row in the frames read.                   *)
(***************************************************************************)
\* result row r carries the column values of left row l
FromLeft(r, l) ==
    /\ r.name_long = l.name_long
    /\ r.continent = l.continent
    /\ r.pop = l.pop
    /\ r.geometry = l.geometry

\* the positions of the left row and of the right row of result row r
LeftPos(r) == CHOOSE i \in 1..Len(world) : world[i].geometry = r.geometry

RightPos(r) ==
    CHOOSE j \in 1..Len(coffee_data) :
        coffee_data[j].coffee_production_2017 = r.coffee_production_2017

\* left row i has a match in right; right row j has a match in left
HasMatch(i) ==
    \E j \in 1..Len(coffee_data) :
        coffee_data[j].name_long = world[i].name_long

IsMatched(j) ==
    \E i \in 1..Len(world) : coffee_data[j].name_long = world[i].name_long

MatchedLeft == {i \in 1..Len(world) : HasMatch(i)}

MatchedRight == {j \in 1..Len(coffee_data) : IsMatched(j)}

MatchingPairs ==
    {p \in (1..Len(world)) \X (1..Len(coffee_data)) :
        world[p[1]].name_long = coffee_data[p[2]].name_long}

\* every key value occurs in at most one row of right
RightKeysUnique ==
    \A j, k \in 1..Len(coffee_data) :
        j # k => coffee_data[j].name_long # coffee_data[k].name_long

\* no key that matches occurs in several rows of left or of right
MatchedKeysUnique ==
    /\ \A i, k \in MatchedLeft : i # k => world[i].name_long # world[k].name_long
    /\ \A j, k \in MatchedRight :
           j # k => coffee_data[j].name_long # coffee_data[k].name_long

\* C2: a left join has at least as many rows as left, exactly as many when
\* every key value occurs in at most one row of right, and every row of left
\* appears in it at least once.
C2_LeftJoinRows ==
    cell = "merge_left" =>
        /\ Len(result) >= Len(world)
        /\ RightKeysUnique => Len(result) = Len(world)
        /\ \A i \in 1..Len(world) :
               \E k \in 1..Len(result) : FromLeft(result[k], world[i])

\* a left join that grew: a left row with two matches beside one with none
C2_Witness ==
    /\ cell = "merge_left"
    /\ Len(result) > Len(world)
    /\ \E i \in 1..Len(world) : ~HasMatch(i)
    /\ \E i \in 1..Len(world) : HasMatch(i)

\* C3: in a left join every left row without a match appears exactly once,
\* with its left column values and np.nan in the column that right
\* contributes; the rows of the result follow left's row order.
C3_LeftJoinUnmatched ==
    cell = "merge_left" =>
        /\ \A i \in 1..Len(world) :
               ~HasMatch(i) =>
                   /\ Cardinality({k \in 1..Len(result) :
                          result[k].geometry = world[i].geometry}) = 1
                   /\ \A k \in 1..Len(result) :
                          result[k].geometry = world[i].geometry =>
                              /\ FromLeft(result[k], world[i])
                              /\ result[k].coffee_production_2017 = NaN
        /\ \A j, k \in 1..Len(result) :
               j < k => LeftPos(result[j]) <= LeftPos(result[k])

\* an unmatched left row between two matched ones of different keys, the
\* later key first in right
C3_Witness ==
    /\ cell = "merge_left"
    /\ Len(world) = 3
    /\ HasMatch(1) /\ ~HasMatch(2) /\ HasMatch(3)
    /\ world[1].name_long # world[3].name_long
    /\ Len(coffee_data) >= 2
    /\ coffee_data[1].name_long = world[3].name_long
    /\ result[2].coffee_production_2017 = NaN

\* C4: in an inner join a left row without a match never appears, every row
\* of the result pairs a left row and a right row of equal keys, and the
\* rows follow left's row order, the matches of one left row in right's
\* order.
C4_InnerJoin ==
    cell = "merge_inner" =>
        /\ \A i \in 1..Len(world) :
               ~HasMatch(i) =>
                   \A k \in 1..Len(result) :
                       result[k].geometry # world[i].geometry
        /\ \A k \in 1..Len(result) :
               \E p \in MatchingPairs :
                   /\ FromLeft(result[k], world[p[1]])
                   /\ result[k].coffee_production_2017
                          = coffee_data[p[2]].coffee_production_2017
        /\ \A j, k \in 1..Len(result) :
               j < k =>
                   \/ LeftPos(result[j]) < LeftPos(result[k])
                   \/ /\ LeftPos(result[j]) = LeftPos(result[k])
                      /\ RightPos(result[j]) < RightPos(result[k])

\* an inner join of left keys x, y, x where x has two matches: the rows of
\* the second x come after the row of y
C4_Witness ==
    /\ cell = "merge_inner"
    /\ Len(world) = 3
    /\ world[1].name_long = world[3].name_long
    /\ world[1].name_long # world[2].name_long
    /\ HasMatch(1) /\ HasMatch(2)
    /\ Len(result) = 5

\* C5 as claimed: an inner join has at most as many rows as the smaller of
\* the number of left rows with a match and the number of right rows with a
\* match.
C5_AsClaimed ==
    cell = "merge_inner" =>
        Len(result) <= Min(Cardinality(MatchedLeft), Cardinality(MatchedRight))

\* C5, amended: an inner join has one row per pair of a left row and a right
\* row of equal keys; that is at least the larger of the two counts of rows
\* with a match and at most their product, and it is at most the smaller of
\* them only when no matching key occurs in several rows of one side.
C5_InnerJoinRows ==
    cell = "merge_inner" =>
        LET ml == Cardinality(MatchedLeft)
            mr == Cardinality(MatchedRight)
        IN  /\ Len(result) = Cardinality(MatchingPairs)
            /\ Len(result) >= Max(ml, mr)
            /\ Len(result) <= ml * mr
            /\ Len(result) <= Min(ml, mr) <=> MatchedKeysUnique

\* a key in two rows of each side: four rows from two and two
C5_Witness ==
    /\ cell = "merge_inner"
    /\ Cardinality(MatchedLeft) = 2
    /\ Cardinality(MatchedRight) = 2
    /\ Len(result) = 4

(***************************************************************************)
(* Properties of the aggregating cells.                                    *)
(***************************************************************************)
\* the sum of the pops that are not missing over the positions P of df
RECURSIVE Total(_, _)
Total(df, P) ==
    IF P = {} THEN 0
    ELSE LET i == CHOOSE x \in P : TRUE
         IN  (IF df[i].pop = NaN THEN 0 ELSE df[i].pop) + Total(df, P \ {i})

KeysOf(df) == {df[i].continent : i \in 1..Len(df)}

\* the keys of df in the order of their first row
FirstAppearance(df) ==
    LET acc[k \in 0..Len(df)] ==
            IF k = 0 THEN <<>>
            ELSE IF \E i \in 1..(k - 1) : df[i].continent = df[k].continent
                 THEN acc[k - 1]
                 ELSE Append(acc[k - 1], df[k].continent)
    IN  acc[Len(df)]

\* each row of the result holds the sum of pop over the rows of its group
HoldsGroupSums ==
    \A k \in 1..Len(result) :
        result[k].pop =
            Total(world, {i \in 1..Len(world) :
                             world[i].continent = result[k].continent})

\* C6 as claimed: for every frame the result has exactly one row per
\* distinct key of the input, each with the sum of its group, and pop summed
\* over the result equals pop summed over the input.
C6_AsClaimed ==
    cell = "groupby" =>
        /\ KeysOf(result) = KeysOf(world)
        /\ Len(result) = Cardinality(KeysOf(world))
        /\ HoldsGroupSums
        /\ Total(result, 1..Len(result)) = Total(world, 1..Len(world))

\* C6, amended: the result has exactly one row per distinct key of the
\* input that is not missing, each with the sum of its group, and pop summed
\* over the result equals pop summed over the input rows whose key is not
\* missing (the rows with a missing key are in no group).
C6_GroupSum ==
    cell = "groupby" =>
        /\ KeysOf(result) = KeysOf(world) \ {NA}
        /\ Len(result) = Cardinality(KeysOf(world) \ {NA})
        /\ HoldsGroupSums
        /\ Total(result, 1..Len(result))
               = Total(world, {i \in 1..Len(world) : world[i].continent # NA})

\* two rows of one continent summed into one row, beside another continent
C6_Witness ==
    /\ cell = "groupby"
    /\ Len(world) = 3
    /\ Len(result) = 2
    /\ NA \notin KeysOf(world)
    /\ \E k \in 1..2 : result[k].pop = 3

\* C7 as claimed: the rows of the groupby result and of the dissolve result
\* are in the order of the first appearance of their keys in the input.
C7_AsClaimed ==
    cell \in {"groupby", "dissolve"} =>
        [k \in 1..Len(result) |-> result[k].continent]
            = FirstAppearance(SelectSeq(world, LAMBDA r : r.continent # NA))

\* C7, amended: the rows of the groupby result and of the dissolve result
\* are in ascending order of their keys, for every row order of the input.
C7_SortedByKey ==
    cell \in {"groupby", "dissolve"} =>
        \A j, k \in 1..Len(result) :
            j < k => StrLess(result[j].continent, result[k].continent)

\* a dissolve of rows in descending key order
C7_Witness ==
    /\ cell = "dissolve"
    /\ Len(world) = 3
    /\ StrLess(world[3].continent, world[2].continent)
    /\ StrLess(world[2].continent, world[1].continent)
    /\ Len(result) = 3
    /\ result[1].continent = world[3].continent

(***************************************************************************)
(* Objects and names: the cells that assign to a column or to an element   *)
(* change an object, and every name bound to that object shows the change. *)
(***************************************************************************)
\* a name that is not assigned yet
NoObject == 0

\* the state of the objects and of the names bound to them
Bound(h, e) == [heap |-> h, env |-> e]

\* name = <expression>: the value of the expression is a new object; the
\* object the name was bound to is freed unless another name is bound to it
New(h, e, name, obj) ==
    LET used == {e[n] : n \in DOMAIN e \ {name}}
        id == CHOOSE i \in 1..(Len(h) + 1) :
                  /\ i \notin used
                  /\ \A j \in 1..(i - 1) : j \in used
    IN  Bound(IF id > Len(h) THEN Append(h, obj) ELSE [h EXCEPT ![id] = obj],
              [e EXCEPT ![name] = id])

\* name = other: both names are bound to one object
copyShared(h, e, name, other) ==
    Bound(h, [e EXCEPT ![name] = e[other]])

\* name = other.copy(): a new object with the columns (the elements) of other
copy(h, e, name, other) ==
    New(h, e, name, h[e[other]])

(***************************************************************************)
(* Frames by column: the cells that select, create, rename and remove      *)
(* columns.  A frame is its columns in order (a name and the values, one   *)
(* per row), its index, and the name of the column that geopandas treats   *)
(* as the geometry (GeoDataFrame._geometry_column_name).                   *)
(***************************************************************************)
\* rows of `world` in the cells that change columns
MaxFrameRows == 2

\* cells run on world2 after it is copied
MaxOps == 3

\* no column is designated as the geometry (a plain DataFrame)
None == "<None>"

Column(n, d) == [name |-> n, data |-> d]

GeoDataFrame(cols, idx, g) == [columns |-> cols, index |-> idx, geometry |-> g]

\* df.columns
ColumnNames(f) == [i \in 1..Len(f.columns) |-> f.columns[i].name]

NameSet(f) == {f.columns[i].name : i \in 1..Len(f.columns)}

\* the columns of f that are named n, in the order of the frame
Named(f, n) == SelectSeq(f.columns, LAMBDA c : c.name = n)

\* the row positions of f, from 1
RowNumbers(f) == [i \in 1..Len(f.index) |-> i]

Take(s, pos) == [k \in 1..Len(pos) |-> s[pos[k]]]

\* the rows of f at the positions pos: every column and the index
TakeRows(f, pos) ==
    GeoDataFrame([i \in 1..Len(f.columns) |->
                     Column(f.columns[i].name, Take(f.columns[i].data, pos))],
                 Take(f.index, pos), f.geometry)

RECURSIVE Chain(_)
Chain(ss) == IF ss = <<>> THEN <<>> ELSE Head(ss) \o Chain(Tail(ss))

\* the designation of a result with the columns cols: kept while the
\* designated column is among them
Designated(g, cols) ==
    IF \E i \in 1..Len(cols) : cols[i].name = g THEN g ELSE None

\* df.iloc[:, :len(names)]: as many leading columns as there are names
getitemLeading(f, names) ==
    IF \E i \in 1..Len(names) : names[i] \notin NameSet(f)
    THEN Raise("KeyError")
    ELSE LET cols == SubSeq(f.columns, 1, Min(Len(names), Len(f.columns)))
         IN  Ok(GeoDataFrame(cols, f.index, Designated(f.geometry, cols)))

\* df[names], names a list: for each name in turn, every column of df with
\* that name; a name that is no column raises KeyError
getitem(f, names) ==
    IF \E i \in 1..Len(names) : names[i] \notin NameSet(f)
    THEN Raise("KeyError")
    ELSE LET cols == Chain([i \in 1..Len(names) |-> Named(f, names[i])])
         IN  Ok(GeoDataFrame(cols, f.index, Designated(f.geometry, cols)))

\* df.iloc[a:b]
iloc_rows(f, a, b) == Ok(TakeRows(f, Slice(RowNumbers(f), a, b)))

\* df.head(n)
head_rows(f, n) == iloc_rows(f, 0, n)

\* df.drop(L): the rows whose label is in L are removed
drop_rows(f, L) ==
    IF \E l \in L : \A i \in 1..Len(f.index) : f.index[i] # l
    THEN Raise("KeyError")
    ELSE Ok(TakeRows(f, SelectSeq(RowNumbers(f),
                                  LAMBDA i : f.index[i] \notin L)))

\* df.drop(names, axis=1).  When the designated column is removed, the
\* result keeps the designation or loses it, depending on the geopandas
\* release (kept tells which).
drop_columns(f, names, kept) ==
    IF \E n \in names : n \notin NameSet(f)
    THEN Raise("KeyError")
    ELSE LET cols == SelectSeq(f.columns, LAMBDA c : c.name \notin names)
         IN  Ok(GeoDataFrame(cols, f.index,
                             IF kept THEN f.geometry
                                     ELSE Designated(f.geometry, cols)))

\* df.rename(columns={old: new}): a key that is no column is ignored, and
\* the designation is not renamed
rename(f, old, new) ==
    Ok(GeoDataFrame([i \in 1..Len(f.columns) |->
                        Column(IF f.columns[i].name = old THEN new
                                                          ELSE f.columns[i].name,
                               f.columns[i].data)],
                    f.index, f.geometry))

\* df.columns = new_names: the names are replaced by position
set_columns(f, new_names) ==
    IF Len(new_names) # Len(f.columns)
    THEN Raise("ValueError")
    ELSE Ok(GeoDataFrame([i \in 1..Len(f.columns) |->
                             Column(new_names[i], f.columns[i].data)],
                         f.index, f.geometry))

\* x < t on a float: False for np.nan
Less(x, t) == x # NaN /\ x < t

\* the one column of f named n, or the error of df[n] as a Series
OneColumn(f, n) ==
    IF Named(f, n) = <<>> THEN "KeyError"
    ELSE IF Len(Named(f, n)) > 1 THEN "ValueError"
    ELSE ""

\* df[df[col] < t]
getitem_mask(f, col, t) ==
    IF OneColumn(f, col) # "" THEN Raise(OneColumn(f, col))
    ELSE LET d == Named(f, col)[1].data
         IN  Ok(TakeRows(f, BoolIndex(RowNumbers(f),
                                      [i \in 1..Len(d) |-> Less(d[i], t)])))

\* pd.merge(left, right, on=key, how=how) by column: the pairs of matching
\* rows in the order of left; the columns of left, then the columns of
\* right but the key; a name in both gets the suffixes _x and _y
merge_on(left, right, key, how) ==
    IF OneColumn(left, key) # "" THEN Raise(OneColumn(left, key))
    ELSE
    LET lk == Named(left, key)[1].data
        rk == Named(right, key)[1].data
        found(i) == SelectSeq(RowNumbers(right), LAMBDA j : rk[j] = lk[i])
        pairs == Chain([i \in 1..Len(lk) |->
                    IF found(i) = <<>>
                    THEN IF how = "left" THEN << <<i, 0>> >> ELSE <<>>
                    ELSE [k \in 1..Len(found(i)) |-> <<i, found(i)[k]>>]])
        both == (NameSet(left) \cap NameSet(right)) \ {key}
        lcols == [i \in 1..Len(left.columns) |->
                    Column(IF left.columns[i].name \in both
                           THEN left.columns[i].name \o "_x"
                           ELSE left.columns[i].name,
                           [k \in 1..Len(pairs) |->
                               left.columns[i].data[pairs[k][1]]])]
        rest == SelectSeq(right.columns, LAMBDA c : c.name # key)
        rcols == [i \in 1..Len(rest) |->
                    Column(IF rest[i].name \in both
                           THEN rest[i].name \o "_y"
                           ELSE rest[i].name,
                           [k \in 1..Len(pairs) |->
                               IF pairs[k][2] = 0 THEN NaN
                               ELSE rest[i].data[pairs[k][2]]])]
    IN  IF \E n \in both : (n \o "_x") \in NameSet(left)
        THEN Raise("MergeError")
        ELSE Ok(GeoDataFrame(lcols \o rcols,
                             [k \in 1..Len(pairs) |-> k - 1], left.geometry))

\* the values of the series s (column src of the frame from) at the labels
\* of idx: assignment aligns on the index, a label s lacks gives np.nan
Aligned(from, src, idx) ==
    LET d == Named(from, src)[1].data
    IN  [k \in 1..Len(idx) |->
            IF \E i \in 1..Len(from.index) : from.index[i] = idx[k]
            THEN d[CHOOSE i \in 1..Len(from.index) : from.index[i] = idx[k]]
            ELSE NaN]

\* df[name] = from[src] with df[name] always added as one more column
setitem_columnAppend(f, name, from, src) ==
    IF OneColumn(from, src) # "" THEN Raise(OneColumn(from, src))
    ELSE Ok(GeoDataFrame(Append(f.columns,
                                Column(name, Aligned(from, src, f.index))),
                         f.index, f.geometry))

\* df[name] = from[src]: the values replace those of the columns named
\* name, or make a new last column when there is none
setitem_column(f, name, from, src) ==
    IF OneColumn(from, src) # "" THEN Raise(OneColumn(from, src))
    ELSE LET d == Aligned(from, src, f.index)
         IN  Ok(GeoDataFrame(
                 IF name \in NameSet(f)
                 THEN [i \in 1..Len(f.columns) |->
                          IF f.columns[i].name = name THEN Column(name, d)
                                                      ELSE f.columns[i]]
                 ELSE Append(f.columns, Column(name, d)),
                 f.index, f.geometry))

\* row p comes before row q in df.sort_values: by value, np.nan last, equal
\* values in their order in df
Before(d, p, q, ascending) ==
    IF d[p] = NaN THEN d[q] = NaN /\ p < q
    ELSE IF d[q] = NaN THEN TRUE
    ELSE IF d[p] = d[q] THEN p < q
    ELSE IF ascending THEN d[p] < d[q] ELSE d[p] > d[q]

\* df.sort_values(by=by, ascending=ascending)
sort_values(f, by, ascending) ==
    IF OneColumn(f, by) # "" THEN Raise(OneColumn(f, by))
    ELSE LET d == Named(f, by)[1].data
             n == Len(d)
             order == CHOOSE p \in [1..n -> 1..n] :
                          /\ \A k, l \in 1..n : k # l => p[k] # p[l]
                          /\ \A k, l \in 1..n :
                                 k < l => Before(d, p[k], p[l], ascending)
         IN  Ok(TakeRows(f, order))

\* pd.DataFrame(df): the columns as they are, none designated
DataFrame(f) == Ok(GeoDataFrame(f.columns, f.index, None))

(***************************************************************************)
(* The notebook, creating and removing columns: world2 = world.copy() and  *)
(* the cells that follow it, each applied to what the cell before left.    *)
(***************************************************************************)
\* the names of the notebook that are bound to objects
NotebookNames == {"world", "coffee_data", "world2", "elev", "elev1", "grain"}

Unbound == [n \in NotebookNames |-> NoObject]

\* `world` with n rows, by column: the countries are numbered 1..n in
\* name_long, the populations fall from n to 1, the geometry of row i is
\* the polygon i; the index is RangeIndex(0, n)
WorldFrame(n) ==
    GeoDataFrame(<<Column("name_long", [i \in 1..n |-> i]),
                   Column("pop", [i \in 1..n |-> n + 1 - i]),
                   Column("geometry", [i \in 1..n |-> i])>>,
                 [i \in 1..n |-> i - 1], "geometry")

\* `coffee_data`: country 1 and a country that `world` lacks
CoffeeFrame ==
    GeoDataFrame(<<Column("name_long", <<1, MaxFrameRows + 1>>),
                   Column("coffee_production_2017", <<5, 6>>)>>,
                 <<0, 1>>, None)

\* the lists of one or two names of S
NameLists(S) == {<<a>> : a \in S} \cup {<<a, b>> : a, b \in S}

\* the state before any cell of a later section is run
ReadObjects(h, e) ==
    /\ world = <<>>
    /\ coffee_data = <<>>
    /\ cell = "read_file"
    /\ sel = <<>>
    /\ labels = {}
    /\ values = {}
    /\ result = NoFrame
    /\ error = ""
    /\ heap = h
    /\ env = e
    /\ args = <<>>
    /\ steps = 0

InitFrame ==
    \E n \in 0..MaxFrameRows :
        ReadObjects(<<WorldFrame(n), CoffeeFrame>>,
                    [Unbound EXCEPT !.world = 1, !.coffee_data = 2])

\* the frame world2 is bound to
W2 == heap[env.world2]

\* world2 is assigned and fewer than MaxOps cells were run on it
Ready == env.world2 # NoObject /\ steps < MaxOps

\* a cell  world2 = <expression>: the value out.frame is a new object
Assigned(name, a, out) ==
    /\ cell' = name
    /\ args' = a
    /\ error' = out.error
    /\ steps' = steps + 1
    /\ IF out.error = ""
       THEN LET b == New(heap, env, "world2", out.frame)
            IN  heap' = b.heap /\ env' = b.env
       ELSE UNCHANGED <<heap, env>>
    /\ UNCHANGED <<world, coffee_data, sel, labels, values, result>>

\* a cell that assigns into the object of world2
Mutated(name, a, out) ==
    /\ cell' = name
    /\ args' = a
    /\ error' = out.error
    /\ steps' = steps + 1
    /\ IF out.error = ""
       THEN heap' = [heap EXCEPT ![env.world2] = out.frame]
       ELSE UNCHANGED heap
    /\ UNCHANGED <<world, coffee_data, sel, labels, values, result, env>>

\* world2 = world.copy()
Copy ==
    /\ env.world # NoObject
    /\ env.world2 = NoObject
    /\ LET b == copy(heap, env, "world2", "world")
       IN  heap' = b.heap /\ env' = b.env
    /\ cell' = "copy"
    /\ args' = <<>>
    /\ error' = ""
    /\ UNCHANGED <<world, coffee_data, sel, labels, values, result, steps>>

\* world2 = world2[names]
Getitem ==
    /\ Ready
    /\ \E names \in NameLists(NameSet(W2) \cup {"geometry"}) :
           Assigned("getitem", names, getitem(W2, names))

\* world2 = world2.drop(n, axis=1)
DropColumns ==
    /\ Ready
    /\ \E n \in NameSet(W2) \cup {"geometry"} :
       \E kept \in IF /\ n \in NameSet(W2)
                      /\ W2.geometry # None
                      /\ W2.geometry \notin NameSet(W2) \ {n}
                   THEN BOOLEAN ELSE {FALSE} :
           Assigned("drop_columns", <<{n}, kept>>,
                    drop_columns(W2, {n}, kept))

\* world2 = world2.rename(columns={old: new})
Rename ==
    /\ Ready
    /\ \E old \in {"name_long", "pop", "geometry"} :
       \E new \in {"geom", "pop"} :
           Assigned("rename", <<old, new>>, rename(W2, old, new))

\* world2.columns = new_names
SetColumns ==
    /\ Ready
    /\ \E new_names \in [1..Len(W2.columns) -> {"a", "geom"}] \cup {<<"a">>} :
           Mutated("set_columns", new_names, set_columns(W2, new_names))

\* world2 = world2.iloc[a:b]
IlocRows ==
    /\ Ready
    /\ \E a \in 0..1 :
       \E b \in a..MaxFrameRows :
           Assigned("iloc_rows", <<a, b>>, iloc_rows(W2, a, b))

\* world2 = world2.head(n)
HeadFrame ==
    /\ Ready
    /\ \E n \in 0..MaxFrameRows :
           Assigned("head_rows", <<n>>, head_rows(W2, n))

\* world2 = world2.drop([l])
DropRows ==
    /\ Ready
    /\ \E l \in 0..MaxFrameRows :
           Assigned("drop_rows", <<{l}>>, drop_rows(W2, {l}))

\* world2 = world2[world2['pop'] < t]
GetitemMask ==
    /\ Ready
    /\ \E t \in 1..MaxFrameRows :
           Assigned("getitem_mask", <<"pop", t>>, getitem_mask(W2, "pop", t))

\* world2 = pd.merge(world2, coffee_data, on='name_long', how=how)
MergeOn ==
    /\ Ready
    /\ \E how \in {"left", "inner"} :
           Assigned("merge_on", <<how>>,
                    merge_on(W2, heap[env.coffee_data], "name_long", how))

\* world2[name] = from['pop']  (from is world or world2); the model keeps
\* the values of the source column where the cell computes with them
SetitemColumn ==
    /\ Ready
    /\ \E name \in {"pop_dens", "pop"} :
       \E from \in {"world", "world2"} :
           Mutated("setitem_column", <<name, from>>,
                   setitem_column(W2, name, heap[env[from]], "pop"))

\* world2 = world2.sort_values(by='pop', ascending=ascending)
SortValues ==
    /\ Ready
    /\ \E ascending \in BOOLEAN :
           Assigned("sort_values", <<"pop", ascending>>,
                    sort_values(W2, "pop", ascending))

\* world2 = pd.DataFrame(world2)
ToDataFrame ==
    /\ Ready
    /\ Assigned("DataFrame", <<>>, DataFrame(W2))

NextFrame ==
    \/ Copy
    \/ Getitem
    \/ DropColumns
    \/ Rename
    \/ SetColumns
    \/ IlocRows
    \/ HeadFrame
    \/ DropRows
    \/ GetitemMask
    \/ MergeOn
    \/ SetitemColumn
    \/ SortValues
    \/ ToDataFrame

SpecFrame == InitFrame /\ [][NextFrame]_vars

(***************************************************************************)
(* Properties of the cells that select, create, rename and remove columns. *)
(***************************************************************************)
NoRepeats(names) ==
    \A i, j \in 1..Len(names) : i # j => names[i] # names[j]

\* C11 as the specification states it: selecting the same list of names
\* again from the result of a successful selection gives the result itself,
\* also when the list repeats a name.
C11_AsClaimed ==
    (cell = "getitem" /\ error = "") => getitem(W2, args) = Ok(W2)

\* C11: world2[names] is idempotent for a list of distinct existing names:
\* selecting the same list again from the result succeeds and gives a frame
\* equal to the result (columns, values, index and designation).  A list
\* that gives one name twice is not: its result has each selected column
\* twice, and the second selection has it four times.
C11_SelectIdempotent ==
    (cell = "getitem" /\ error = "") =>
        /\ NoRepeats(args) => getitem(W2, args) = Ok(W2)
        /\ ~NoRepeats(args) =>
               /\ getitem(W2, args).error = ""
               /\ Len(getitem(W2, args).frame.columns) = 2 * Len(W2.columns)

\* two distinct columns were selected from a frame that has rows
C11_Witness ==
    /\ cell = "getitem"
    /\ error = ""
    /\ Len(args) = 2
    /\ NoRepeats(args)
    /\ ColumnNames(W2) = args
    /\ Len(W2.index) = MaxFrameRows

(***************************************************************************)
(* Arrays: the raster cells.  A numpy array is its dtype and its rows of   *)
(* elements; np.nan is NaN, the elevations and grain classes are >= 0.     *)
(***************************************************************************)
\* rows and columns of `elev`
MaxGridRows == 3

MaxGridCols == 4

\* cells of `grain`, and its largest class
MaxGrainCells == 6

MaxGrain == 3

Array(dtype, data) == [dtype |-> dtype, data |-> data]

\* a.shape
Shape(a) == <<Len(a.data), Len(a.data[1])>>

\* one component of an index: the integer i, or the slice start:stop
At(i) == [kind |-> "int", start |-> i, stop |-> i]

Range(a, b) == [kind |-> "slice", start |-> a, stop |-> b]

\* start:stop taken with its stop included
AddressedInclusive(c, n) ==
    IF c.kind = "int" THEN {c.start}
    ELSE {k \in 0..(n - 1) : c.start <= k /\ k <= c.stop}

\* the positions (from 0) that the component c addresses on an axis of
\* length n: i alone, or start, ..., stop - 1, clipped to the axis
Addressed(c, n) ==
    IF c.kind = "int" THEN {c.start}
    ELSE {k \in 0..(n - 1) : c.start <= k /\ k < c.stop}

\* a[r, c] = v stored whatever the dtype
setitemAnyType(a, r, c, v) ==
    Ok(Array(a.dtype,
             [i \in 1..Len(a.data) |->
                 [j \in 1..Len(a.data[i]) |->
                     IF /\ (i - 1) \in Addressed(r, Shape(a)[1])
                        /\ (j - 1) \in Addressed(c, Shape(a)[2])
                     THEN v ELSE a.data[i][j]]]))

\* a[r, c] = v: the elements at the rows of r and the columns of c become
\* v.  np.nan cannot be converted to an integer: on an int array the
\* assignment raises ValueError ("cannot convert float NaN to integer").
setitem(a, r, c, v) ==
    IF v = NaN /\ a.dtype = "int"
    THEN Raise("ValueError")
    ELSE Ok(Array(a.dtype,
                  [i \in 1..Len(a.data) |->
                      [j \in 1..Len(a.data[i]) |->
                          IF /\ (i - 1) \in Addressed(r, Shape(a)[1])
                             /\ (j - 1) \in Addressed(c, Shape(a)[2])
                          THEN v ELSE a.data[i][j]]]))

\* a.astype('float64'): a new array, every integer as the float equal to it
astype(a, dtype) == Ok(Array(dtype, a.data))

\* a.flatten(): the elements row by row
flatten(a) == Chain(a.data)

\* the sum of the numbers of x
RECURSIVE Sum(_)
Sum(x) == IF x = <<>> THEN 0 ELSE Head(x) + Sum(Tail(x))

IsNumber(v) == v # NaN

\* a float that is the quotient s / n of two sums, kept exact
Ratio(s, n) == [num |-> s, den |-> n]

\* the float np.nan as a result (0.0 / 0)
NanRatio == Ratio(0, 0)

\* s / n on floats: np.nan when s is np.nan, and 0.0 / 0 is np.nan
TrueDivide(s, n) == IF s = NaN \/ n = 0 THEN NanRatio ELSE Ratio(s, n)

\* np.add.reduce: np.nan as soon as one element is np.nan
add_reduce(x) ==
    IF \E k \in 1..Len(x) : x[k] = NaN THEN NaN
    ELSE Sum(x)

\* np.mean(a): the sum of all elements by their number
mean(a) == TrueDivide(add_reduce(flatten(a)), Len(flatten(a)))

\* the mean with np.nan counted as 0.0
nanmeanZeroFill(a) ==
    TrueDivide(Sum(SelectSeq(flatten(a), IsNumber)), Len(flatten(a)))

\* np.nanmean(a): the sum of the elements that are not np.nan by their number
nanmean(a) ==
    TrueDivide(Sum(SelectSeq(flatten(a), IsNumber)),
               Len(SelectSeq(flatten(a), IsNumber)))

\* the numbers of S in ascending order
RECURSIVE Sorted(_)
Sorted(S) ==
    IF S = {} THEN <<>>
    ELSE LET least == CHOOSE x \in S : \A y \in S : x <= y
         IN  <<least>> \o Sorted(S \ {least})

\* how many elements of x equal v
Count(x, v) == Cardinality({k \in 1..Len(x) : x[k] = v})

\* the distinct values in descending order, with their counts
uniqueDescending(a) ==
    LET x == flatten(a)
        up == Sorted({x[k] : k \in 1..Len(x)})
        vals == [i \in 1..Len(up) |-> up[Len(up) + 1 - i]]
    IN  <<vals, [i \in 1..Len(vals) |-> Count(x, vals[i])]>>

\* np.unique(a, return_counts=True): the sorted distinct values of the
\* flattened array, and for each the number of elements equal to it
unique(a) ==
    LET x == flatten(a)
        vals == Sorted({x[k] : k \in 1..Len(x)})
    IN  <<vals, [i \in 1..Len(vals) |-> Count(x, vals[i])]>>

(***************************************************************************)
(* The notebook, raster cells: elev is read and written, elev1 is its      *)
(* float copy; a run stops at the first cell that raises.                  *)
(***************************************************************************)
\* `elev` as read, r rows and c columns: elev.tif numbers its cells row by
\* row from 1
ElevArray(r, c) ==
    Array("int", [i \in 1..r |-> [j \in 1..c |-> (i - 1) * c + j]])

InitElev ==
    \E r \in 1..MaxGridRows :
    \E c \in 1..MaxGridCols :
        ReadObjects(<<ElevArray(r, c)>>, [Unbound EXCEPT !.elev = 1])

\* the index components tried on an axis of length n: each position, and
\* the slices that start at 0 or 1
Components(n) ==
    {At(i) : i \in 0..(n - 1)} \cup
    ({Range(a, b) : a \in 0..1, b \in 1..n} \ {Range(1, 1)})

\* a cell  x[r, c] = v  on the array that the name x is bound to
SetItem(x, r, c, v) ==
    LET out == setitem(heap[env[x]], r, c, v)
    IN  /\ cell' = "setitem"
        /\ args' = <<x, r, c, v>>
        /\ error' = out.error
        /\ IF out.error = ""
           THEN heap' = [heap EXCEPT ![env[x]] = out.frame]
           ELSE UNCHANGED heap
        /\ UNCHANGED <<world, coffee_data, sel, labels, values, result, env,
                       steps>>

\* elev[r, c] = 0, and the same with np.nan
SetElev ==
    /\ env.elev # NoObject
    /\ cell = "read_file"
    /\ \E r \in Components(Shape(heap[env.elev])[1]) :
       \E c \in Components(Shape(heap[env.elev])[2]) :
       \E v \in {0, NaN} :
           SetItem("elev", r, c, v)

\* elev1 = elev.copy()
CopyElev ==
    /\ env.elev # NoObject
    /\ env.elev1 = NoObject
    /\ error = ""
    /\ LET b == copy(heap, env, "elev1", "elev")
       IN  heap' = b.heap /\ env' = b.env
    /\ cell' = "copy"
    /\ args' = <<>>
    /\ UNCHANGED <<world, coffee_data, sel, labels, values, result, error,
                   steps>>

\* elev1 = elev1.astype('float64')
Astype ==
    /\ env.elev1 # NoObject
    /\ cell = "copy"
    /\ LET b == New(heap, env, "elev1",
                    astype(heap[env.elev1], "float64").frame)
       IN  heap' = b.heap /\ env' = b.env
    /\ cell' = "astype"
    /\ args' = <<"float64">>
    /\ UNCHANGED <<world, coffee_data, sel, labels, values, result, error,
                   steps>>

\* elev1[r, c] = np.nan, and the same with 0
SetElev1 ==
    /\ env.elev1 # NoObject
    /\ cell = "astype"
    /\ \E r \in Components(Shape(heap[env.elev1])[1]) :
       \E c \in Components(Shape(heap[env.elev1])[2]) :
       \E v \in {0, NaN} :
           SetItem("elev1", r, c, v)

\* the array the summary cells are run on: elev1 once it exists
Summarised == IF env.elev1 # NoObject THEN "elev1" ELSE "elev"

\* a cell that shows the summary out of an array
Shown(name, out) ==
    /\ env.elev # NoObject
    /\ cell \in {"read_file", "setitem", "astype"}
    /\ error = ""
    /\ cell' = name
    /\ args' = <<Summarised>>
    /\ result' = out
    /\ UNCHANGED <<world, coffee_data, sel, labels, values, error, env, heap,
                   steps>>

\* np.mean(elev), np.mean(elev1)
Mean == Shown("mean", mean(heap[env[Summarised]]))

\* np.nanmean(elev1)
NanMean == Shown("nanmean", nanmean(heap[env[Summarised]]))

NextRaster ==
    \/ SetElev
    \/ CopyElev
    \/ Astype
    \/ SetElev1
    \/ Mean
    \/ NanMean

SpecRaster == InitElev /\ [][NextRaster]_vars

\* `grain` as read: its classes are 0..MaxGrain, in any arrangement
InitGrain ==
    \E r \in 1..MaxGrainCells :
    \E c \in 1..MaxGrainCells :
        /\ r * c <= MaxGrainCells
        /\ \E d \in [1..r -> [1..c -> 0..MaxGrain]] :
               ReadObjects(<<Array("int", d)>>, [Unbound EXCEPT !.grain = 1])

\* freq = np.unique(grain, return_counts=True)
Unique ==
    /\ env.grain # NoObject
    /\ cell = "read_file"
    /\ cell' = "unique"
    /\ args' = <<"grain">>
    /\ result' = unique(heap[env.grain])
    /\ UNCHANGED <<world, coffee_data, sel, labels, values, error, env, heap,
                   steps>>

NextGrain == Unique

SpecGrain == InitGrain /\ [][NextGrain]_vars

(***************************************************************************)
(* Properties of the raster cells.                                         *)
(***************************************************************************)
\* the array the last cell was run on
Operand == heap[env[args[1]]]

\* the positions <<row, column>> of a, from 1
Cells(a) == {<<i, j>> : i \in 1..Len(a.data), j \in 1..Len(a.data[1])}

\* the positions of a that hold a number
NumberCells(a) == {p \in Cells(a) : a.data[p[1]][p[2]] # NaN}

\* the sum of the elements of a at the positions S
RECURSIVE CellSum(_, _)
CellSum(a, S) ==
    IF S = {} THEN 0
    ELSE LET p == CHOOSE q \in S : TRUE
         IN  a.data[p[1]][p[2]] + CellSum(a, S \ {p})

\* C12: on a float array with at least one np.nan, np.mean gives np.nan and
\* np.nanmean gives the mean of exactly the elements that are not np.nan
\* (their sum by their number); when every element is np.nan, np.nanmean
\* gives np.nan.
C12_NanReductions ==
    LET a == Operand
    IN  /\ (/\ cell = "mean"
            /\ a.dtype = "float64"
            /\ NumberCells(a) # Cells(a)) => result = NanRatio
        /\ (/\ cell = "nanmean"
            /\ a.dtype = "float64"
            /\ NumberCells(a) # Cells(a)) =>
               IF NumberCells(a) = {}
               THEN result = NanRatio
               ELSE /\ result.den > 0
                    /\ result.num * Cardinality(NumberCells(a)) =
                           CellSum(a, NumberCells(a)) * result.den

\* np.nanmean was run on an array with np.nan in some cells and not in all
C12_Witness ==
    /\ cell = "nanmean"
    /\ Operand.dtype = "float64"
    /\ NumberCells(Operand) # Cells(Operand)
    /\ Cardinality(NumberCells(Operand)) >= 2
    /\ result # NanRatio

\* position k (from 0) is what the index component c addresses
InIndex(c, k) ==
    IF c.kind = "int" THEN k = c.start ELSE c.start <= k /\ k < c.stop

\* the elements of new are those of old, but v at the rows of r and the
\* columns of c
Overwritten(new, old, r, c, v) ==
    /\ new.dtype = old.dtype
    /\ Shape(new) = Shape(old)
    /\ \A p \in Cells(old) :
           new.data[p[1]][p[2]] =
               IF InIndex(r, p[1] - 1) /\ InIndex(c, p[2] - 1)
               THEN v ELSE old.data[p[1]][p[2]]

\* C13: a successful x[r, c] = v, where r and c are integers or half-open
\* ranges, changes the object that x is bound to, in place: the elements at
\* (rows of r) x (columns of c) become v and every other element keeps its
\* value.  On the 3 by 4 elev, elev[0, 0:3] = 0 zeroes (0,0), (0,1), (0,2)
\* and leaves (0,3) and rows 1 and 2 as they were.
C13_SetOverwrites ==
    /\ [][(cell' = "setitem" /\ error' = "") =>
             /\ env' = env
             /\ Overwritten(heap'[env[args'[1]]], heap[env[args'[1]]],
                            args'[2], args'[3], args'[4])]_vars
    /\ [](/\ cell = "setitem"
          /\ args = <<"elev", At(0), Range(0, 3), 0>>
          /\ Shape(Operand) = <<3, 4>>
          => Operand.data = << <<0, 0, 0, 4>>, <<5, 6, 7, 8>>,
                               <<9, 10, 11, 12>> >>)

\* elev[0, 0:3] = 0 was run on the 3 by 4 elev
C13_Witness ==
    /\ cell = "setitem"
    /\ error = ""
    /\ args = <<"elev", At(0), Range(0, 3), 0>>
    /\ Operand.data = << <<0, 0, 0, 4>>, <<5, 6, 7, 8>>, <<9, 10, 11, 12>> >>

\* a step: a cell  x[r, c] = np.nan  on an int array raises kind and
\* changes no object; on a float array it succeeds and stores np.nan at
\* [r, c]
NanAssignment(kind) ==
    (cell' = "setitem" /\ args'[4] = NaN) =>
        IF heap[env[args'[1]]].dtype = "int"
        THEN error' = kind /\ heap' = heap /\ env' = env
        ELSE /\ error' = ""
             /\ heap[env[args'[1]]].dtype = "float64"
             /\ Overwritten(heap'[env[args'[1]]], heap[env[args'[1]]],
                            args'[2], args'[3], NaN)

\* C14 as the specification states it: the error is of the TypeError kind.
C14_AsClaimed == [][NanAssignment("TypeError")]_vars

\* C14: assigning np.nan into elements of the int array elev raises an
\* error of the ValueError kind and leaves every element unchanged; the
\* same assignment on elev1 = elev.copy().astype('float64') succeeds and
\* stores np.nan at the addressed elements.
C14_NanIntoInt == [][NanAssignment("ValueError")]_vars

\* np.nan was assigned into the int array elev
C14_Witness ==
    /\ cell = "setitem"
    /\ args[1] = "elev"
    /\ args[4] = NaN
    /\ error = "ValueError"
    /\ Operand = ElevArray(MaxGridRows, MaxGridCols)

\* C15: np.unique(grain, return_counts=True) gives two sequences of equal
\* length: the distinct values of the array in strictly ascending order
\* and, at the same position, the number of elements equal to that value;
\* the counts add up to the number of elements.
C15_UniqueCounts ==
    cell = "unique" =>
        LET a == Operand
            vals == result[1]
            counts == result[2]
        IN  /\ Len(vals) = Len(counts)
            /\ \A i, j \in 1..Len(vals) : i < j => vals[i] < vals[j]
            /\ {vals[i] : i \in 1..Len(vals)} =
                   {a.data[p[1]][p[2]] : p \in Cells(a)}
            /\ \A i \in 1..Len(vals) :
                   counts[i] = Cardinality({p \in Cells(a) :
                                               a.data[p[1]][p[2]] = vals[i]})
            /\ Sum(counts) = Cardinality(Cells(a))

\* np.unique was run on the elements 1, 1, 2, 3, 3, 3
C15_Witness ==
    /\ cell = "unique"
    /\ flatten(Operand) = <<1, 1, 2, 3, 3, 3>>
    /\ result = << <<1, 2, 3>>, <<2, 1, 3>> >>

(***************************************************************************)
(* Properties of world2 over a run of cells, and of the copies.            *)
(***************************************************************************)
\* every column has one value per row of the index
EqualLengths(f) ==
    \A i \in 1..Len(f.columns) : Len(f.columns[i].data) = Len(f.index)

\* no two columns have the same name
UniqueNames(f) == NoRepeats(ColumnNames(f))

\* the designated geometry column, if any, is a column of the frame
GeometryExists(f) == f.geometry # None => f.geometry \in NameSet(f)

ValidFrame(f) == EqualLengths(f) /\ UniqueNames(f) /\ GeometryExists(f)

RepeatsName ==
    \/ cell' = "getitem" /\ ~NoRepeats(args')
    \/ /\ cell' = "rename"
       /\ args'[1] \in NameSet(W2)
       /\ args'[1] # args'[2]
       /\ args'[2] \in NameSet(W2)
    \/ cell' = "set_columns" /\ ~NoRepeats(args')

\* the step renames or removes the designated geometry column
LosesGeometry ==
    /\ W2.geometry \in NameSet(W2)
    /\ \/ cell' = "rename" /\ args'[1] = W2.geometry /\ args'[2] # args'[1]
       \/ /\ cell' = "set_columns"
          /\ \E i \in 1..Len(W2.columns) :
                 W2.columns[i].name = W2.geometry /\ args'[i] # W2.geometry
       \/ cell' = "drop_columns" /\ W2.geometry \in args'[1]

InitCopy == InitFrame \/ InitElev

NextCopy == NextFrame \/ SetElev \/ CopyElev \/ Astype \/ SetElev1

SpecCopy == InitCopy /\ [][NextCopy]_vars

\* C17: after world2 = world.copy(), no cell that assigns a column of
\* world2 or drops columns of it changes a column, a value, the index or
\* the designation of world; after elev1 = elev.copy().astype('float64'),
\* no assignment into elev1 (np.nan included) changes an element or the
\* dtype of elev.
C17_CopiesNotAliased ==
    /\ [][(cell' \in {"setitem_column", "drop_columns"}) =>
             /\ env'.world = env.world
             /\ heap'[env.world] = heap[env.world]]_vars
    /\ [][(cell' = "setitem" /\ args'[1] = "elev1") =>
             /\ env'.elev = env.elev
             /\ heap'[env.elev] = heap[env.elev]]_vars

\* a column of world2 was assigned and world2 differs from world
C17_Witness ==
    /\ cell = "setitem_column"
    /\ error = ""
    /\ steps = MaxOps
    /\ env.world2 # env.world
    /\ "pop_dens" \in NameSet(W2)
    /\ heap[env.world] = WorldFrame(MaxFrameRows)

=============================================================================
